---- MODULE Spec2Model ----
(***************************************************************************)
(* A model of src/app.py: the FastAPI relay that rate-limits /download     *)
(* requests, sweeps stale files from DOWNLOAD_DIR, validates the URL,      *)
(* calls yt-dlp and maps the outcome to a JSON response, and that serves   *)
(* the files of DOWNLOAD_DIR under /files and reports on /health and /.    *)
(*                                                                         *)
(* Time is counted in ticks, TicksPerSec ticks to the second, so that the  *)
(* float arithmetic of time.time() and the truncation int(wait_time) are   *)
(* both visible.                                                           *)
(***************************************************************************)
EXTENDS Integers, Sequences, FiniteSets, TLC

\* ------------------------------------------------------------------ bounds
\* clock ticks to the second
TicksPerSec == 2
\* clock steps in the specification of the limiter
MaxAdvances == 2
\* clock steps in the specification of the whole pipeline
MaxAgeings == 1
\* requests per window in the specification of the whole pipeline
MaxBurst == 2
\* requests per window of the second client
MaxOther == 1
\* words in a failure message
MaxMsgLen == 3

\* ------------------------------------------------------- program constants
max_requests == 5
time_window == 60
StaleSeconds == 1800

Window == time_window * TicksPerSec
Stale == StaleSeconds * TicksPerSec
\* the clock reading when the model starts: files left by an earlier run of
\* the process can be older than the staleness threshold
T0 == Stale + Window

Handlers == {"h1", "h2"}
\* a request is served by the first free handler
Slot(h) == IF h = "h1" THEN 1 ELSE 2
Clients == {"A", "B"}

\* ------------------------------------------------------------- RateLimiter
\* a purge that keeps a timestamp exactly time_window old
PurgeInclusive(reqs, t) == SelectSeq(reqs, LAMBDA r : t - r <= Window)

\* line 84: the timestamps kept by the purge
Purge(reqs, t) == SelectSeq(reqs, LAMBDA r : t - r < Window)

\* a rejection test that is off by one
LimitHitLoose(kept) == Len(kept) > max_requests

\* line 86: the rejection test on the purged list
LimitHit(kept) == Len(kept) >= max_requests

\* line 87: wait_time, in ticks
wait_time(kept, t) == Window - (t - kept[1])

\* lines 93-94: int(wait_time), whole seconds
retry_after(kept, t) == wait_time(kept, t) \div TicksPerSec

\* a check that never purges
check_rate_limit_unpurged(reqs, t) ==
    IF Len(reqs) >= max_requests
    THEN [ok |-> FALSE, requests |-> reqs,
          retry |-> (Window - (t - reqs[1])) \div TicksPerSec]
    ELSE [ok |-> TRUE, requests |-> Append(reqs, t), retry |-> 0]

\* a check whose append is lost
check_rate_limit_dropping(reqs, t) ==
    LET kept == Purge(reqs, t)
    IN  IF LimitHit(kept)
        THEN [ok |-> FALSE, requests |-> kept, retry |-> retry_after(kept, t)]
        ELSE [ok |-> TRUE, requests |-> kept, retry |-> 0]

\* a check that counts the rejected request too
check_rate_limit_counting(reqs, t) ==
    LET kept == Purge(reqs, t)
    IN  IF LimitHit(kept)
        THEN [ok |-> FALSE, requests |-> Append(kept, t), retry |-> retry_after(kept, t)]
        ELSE [ok |-> TRUE, requests |-> Append(kept, t), retry |-> 0]

\* lines 81-98: the list after one check, and whether it raised
check_rate_limit(reqs, t) ==
    LET kept == Purge(reqs, t)
    IN  IF LimitHit(kept)
        THEN [ok |-> FALSE, requests |-> kept, retry |-> retry_after(kept, t)]
        ELSE [ok |-> TRUE, requests |-> Append(kept, t), retry |-> 0]

\* ------------------------------------------------------------------ strings
\* A string is a sequence of tokens; Python's `sub in s` is containment of a
\* contiguous subsequence.
Contains(s, sub) ==
    \E i \in 0..(Len(s) - Len(sub)) :
        \A j \in 1..Len(sub) : s[i + j] = sub[j]

\* ----------------------------------------------------------- request bodies
\* A URL string, kept in three parts; Text is the string the handler sees.
Url(scheme, host, path) == [scheme |-> scheme, host |-> host, path |-> path]
Text(u) == <<u.scheme>> \o u.host \o u.path

UVideo == Url("https://", <<"www.", "tiktok.com">>, <<"/@u", "/video/", "1">>)
UPhoto == Url("https://", <<"www.", "tiktok.com">>, <<"/@u", "/photo/", "1">>)
UOther == Url("https://", <<"example.org">>, <<"/v", "/video/", "1">>)
USpoof == Url("https://", <<"example.org">>, <<"/?ref=", "tiktok.com">>)
Urls == {UVideo, UPhoto, UOther, USpoof}
NoUrl == Url("", <<>>, <<>>)

\* what `await request.json()` yields: an exception, a body without 'url',
\* or a body with one
Bodies ==
    {[kind |-> "badjson", url |-> NoUrl], [kind |-> "nourl", url |-> NoUrl]}
    \cup {[kind |-> "url", url |-> u] : u \in Urls}
NoBody == [kind |-> "none", url |-> NoUrl]

\* line 179
valid_domains == {<<"tiktok.com">>, <<"vm.", "tiktok.com">>, <<"vt.", "tiktok.com">>}

\* line 180: any(domain in tiktok_url for domain in valid_domains)
DomainCheck(u) == \E d \in valid_domains : Contains(Text(u), d)

\* line 188: '/photo/' in tiktok_url
PhotoCheck(u) == Contains(Text(u), <<"/photo/">>)

\* lines 167-196: the response status of the validation, 0 when it passes;
\* 500 is the outer handler's answer to the exception of request.json()
Validate(body) ==
    IF body.kind = "badjson" THEN 500
    ELSE IF body.kind = "nourl" THEN 400
    ELSE IF ~DomainCheck(body.url) THEN 400
    ELSE IF PhotoCheck(body.url) THEN 400
    ELSE 0

\* lines 172, 183, 193, 358: the "error" text of that response
ValidateError(body) ==
    IF body.kind = "badjson" THEN "Server error"
    ELSE IF body.kind = "nourl" THEN "No URL provided"
    ELSE IF ~DomainCheck(body.url) THEN "Invalid TikTok URL"
    ELSE IF PhotoCheck(body.url) THEN "TikTok photo posts (slideshows) are not supported"
    ELSE ""

\* ------------------------------------------------------ failure messages
\* str(e) of the yt_dlp.utils.ExtractorError the library raised: up to
\* MaxMsgLen words of a vocabulary that holds the words the handler looks
\* for, in more than one case, and a word it does not look for
NoData == "Unable to extract webpage video data"
Vocabulary ==
    {NoData, "Private", "private", "Video", "video", "unavailable", "Forbidden",
     "forbidden", "404", "403", "Unsupported"}
Messages == UNION {[1..n -> Vocabulary] : n \in 1..MaxMsgLen}
MsgPrivate == <<"Private", "video">>
NoMsg == <<>>

\* lines 275-318: the status the handler answers an ExtractorError with
ErrorStatus(msg) ==
    IF Contains(msg, <<NoData>>) THEN 503
    ELSE IF Contains(msg, <<"Private", "video">>) THEN 403
    ELSE IF Contains(msg, <<"Video", "unavailable">>) \/ Contains(msg, <<"404">>) THEN 404
    ELSE 500

\* lines 276-318: the "error" text of that answer
ErrorText(msg, cookies) ==
    IF Contains(msg, <<NoData>>)
    THEN IF ~cookies THEN "TikTok extraction failed - Cookies required"
         ELSE "TikTok extraction failed - Cookies may be expired"
    ELSE IF Contains(msg, <<"Private", "video">>) THEN "This video is private"
    ELSE IF Contains(msg, <<"Video", "unavailable">>) \/ Contains(msg, <<"404">>)
    THEN "Video not found or has been deleted"
    ELSE "Download failed"

\* ------------------------------------------------------------ DOWNLOAD_DIR
\* line 201: str(uuid.uuid4())[:8], drawn from a small set
Ids == {"a", "b"}
\* line 202
output_filename(id) == IF id = "a" THEN "tiktok_a.mp4" ELSE "tiktok_b.mp4"
\* a name the library chose instead of the requested one (line 266)
LibName == "1.webm"
FileNames == {output_filename(id) : id \in Ids} \cup {LibName}
SubDir == "sub"
Names == FileNames \cup {SubDir}

Absent == [kind |-> "none", mtime |-> 0]
File(m) == [kind |-> "file", mtime |-> m]
Dir(m) == [kind |-> "dir", mtime |-> m]

\* os.listdir
Listing(d) == {n \in Names : d[n].kind # "none"}
\* line 67: os.path.isfile
isfile(d, n) == d[n].kind = "file"
\* lines 321, 322, 368: os.path.exists
exists(d, n) == d[n].kind # "none"
\* a staleness test that takes a file exactly at the threshold
IsStaleInclusive(d, n, t) == t - d[n].mtime >= Stale

\* line 68: the staleness test
IsStale(d, n, t) == t - d[n].mtime > Stale

\* the orders os.listdir may return the entries in
Orders(S) ==
    {o \in [1..Cardinality(S) -> S] : \A i, j \in 1..Cardinality(S) : o[i] = o[j] => i = j}

\* the order shows only when an exception cuts the loop short
SweepOrders(S, fault) ==
    IF fault.kind \in {"stat", "remove"} THEN Orders(S)
    ELSE {CHOOSE o \in Orders(S) : TRUE}

\* A fault of the file system during one sweep: none, os.listdir raising,
\* os.path.getmtime raising on one file, os.remove raising on one file.
NoFault == [kind |-> "none", at |-> ""]
Faults(d, t) ==
    {NoFault, [kind |-> "listdir", at |-> ""]}
    \cup {[kind |-> "stat", at |-> n] : n \in {m \in FileNames : isfile(d, m)}}
    \cup {[kind |-> "remove", at |-> n] :
            n \in {m \in FileNames : isfile(d, m) /\ IsStale(d, m, t)}}

\* lines 65-70: the loop from position i on; the first exception ends it
RECURSIVE SweepFrom(_, _, _, _, _)
SweepFrom(d, t, order, i, fault) ==
    IF i > Len(order) THEN [dir |-> d, err |-> "none"]
    ELSE LET n == order[i]
         IN  IF ~isfile(d, n) THEN SweepFrom(d, t, order, i + 1, fault)
             ELSE IF fault.kind = "stat" /\ fault.at = n THEN [dir |-> d, err |-> "stat"]
             ELSE IF ~IsStale(d, n, t) THEN SweepFrom(d, t, order, i + 1, fault)
             ELSE IF fault.kind = "remove" /\ fault.at = n THEN [dir |-> d, err |-> "remove"]
             ELSE SweepFrom([d EXCEPT ![n] = Absent], t, order, i + 1, fault)

\* lines 58-72
cleanup_old_files(d, t, order, fault) ==
    IF fault.kind = "listdir" THEN [dir |-> d, err |-> "listdir"]
    ELSE SweepFrom(d, t, order, 1, fault)

\* ------------------------------------------------------------------- paths
\* A path is the sequence of its components below the root.
\* line 45
DOWNLOAD_DIR == <<"tmp", "downloads">>

\* what GET /files/{filename} is asked for: the names DOWNLOAD_DIR can hold,
\* a name it never holds, and the parent reference; the path parameter of the
\* route (line 362) is one segment and holds no "/"
Missing == "missing.mp4"
DotDot == ".."
ServeNames == Names \cup {Missing, DotDot}

\* lines 203, 366: os.path.join of a directory and one segment
join(base, filename) == Append(base, filename)

\* the path the operating system resolves: ".." steps to the parent
RECURSIVE ResolveFrom(_, _, _)
ResolveFrom(path, i, acc) ==
    IF i > Len(path) THEN acc
    ELSE IF path[i] = DotDot
    THEN ResolveFrom(path, i + 1, IF acc = <<>> THEN acc ELSE SubSeq(acc, 1, Len(acc) - 1))
    ELSE ResolveFrom(path, i + 1, Append(acc, path[i]))

Resolve(path) == ResolveFrom(path, 1, <<>>)

IsPrefix(p, q) == Len(p) <= Len(q) /\ SubSeq(q, 1, Len(p)) = p

\* the entry a path leads to: an entry of DOWNLOAD_DIR, DOWNLOAD_DIR itself or
\* a directory above it (both exist since line 48), or nothing
EntryAt(d, path) ==
    LET p == Resolve(path)
    IN  IF IsPrefix(p, DOWNLOAD_DIR) THEN Dir(0)
        ELSE IF Len(p) = Len(DOWNLOAD_DIR) + 1 /\ IsPrefix(DOWNLOAD_DIR, p)
                /\ p[Len(p)] \in Names
        THEN d[p[Len(p)]]
        ELSE Absent

\* line 368: os.path.exists(filepath)
path_exists(d, path) == EntryAt(d, path).kind # "none"

\* lines 377-387: FileResponse(filepath) streams a regular file; for anything
\* else it raises when the response is sent, after the handler has returned
FileResponse(d, path) ==
    IF EntryAt(d, path).kind = "file"
    THEN [status |-> 200, raised |-> FALSE, path |-> Resolve(path), file |-> EntryAt(d, path)]
    ELSE [status |-> 500, raised |-> TRUE, path |-> Resolve(path), file |-> Absent]

\* lines 362-394: the answer to GET /files/{filename}
\* (the "file not found" answer names no path)
serve_file(d, filename) ==
    LET filepath == join(DOWNLOAD_DIR, filename)
    IN  IF ~path_exists(d, filepath)
        THEN [status |-> 404, raised |-> FALSE, path |-> <<>>, file |-> Absent]
        ELSE FileResponse(d, filepath)

\* lines 128-153: the answer to GET /health; os.listdir may raise
health(d, reqs, fails) ==
    IF fails
    THEN [status |-> 500, files_cached |-> -1, current_requests |-> -1]
    ELSE [status |-> 200,
          files_cached |-> Cardinality({n \in Listing(d) : isfile(d, n)}),
          current_requests |-> Len(reqs)]

\* what ydl.extract_info and ydl.prepare_filename do (lines 256-266): raise an
\* ExtractorError with a message, raise another exception, or return, with
\* the file written or not, under the requested name or the library's own
Outcomes ==
    {[kind |-> "extractor_error", msg |-> m, lib |-> FALSE, wrote |-> FALSE] : m \in Messages}
    \cup {[kind |-> "exception", msg |-> NoMsg, lib |-> FALSE, wrote |-> FALSE]}
    \cup {[kind |-> "returned", msg |-> NoMsg, lib |-> l, wrote |-> w] : l, w \in BOOLEAN}

\* ------------------------------------------------------------------- state
VARIABLES
    now,        \* time.time(), in ticks
    advances,   \* how often the clock has moved
    requests,   \* rate_limiter.requests, the one list of the process (line 100)
    dir,        \* the entries of DOWNLOAD_DIR
    pc,         \* per handler: "idle", "body" while it awaits request.json(),
                \* "backend" while it is inside ydl.extract_info
    local,      \* per handler: the locals of download_video
    window,     \* history: the requests admitted in the last time_window
                \* seconds, each with its time and its client
    rejected,   \* history: a check was rejected since the last admission
    advised,    \* history: the last rejection since the last admission
    issued,     \* history: per file name, the successful download that
                \* returned it
    lastCheck,  \* history: the admission check of the step just taken
    lastSweep,  \* history: the sweep of the step just taken
    last,       \* history: the /download response of the step just taken
    served      \* history: the response of another route in the step just taken

vars ==
    <<now, advances, requests, dir, pc, local, window, rejected, advised, issued,
      lastCheck, lastSweep, last, served>>

NoAdvice == [t |-> -1, retry |-> 0]
NoIssue == [t |-> -1, mtime |-> -1]
NoLocal == [body |-> NoBody, id |-> "", sweeps |-> 0, swept |-> ""]

NoCheck ==
    [client |-> "", t |-> 0, ok |-> TRUE, seen |-> 0, own |-> 0, others |-> 0,
     oldest |-> -1, prev |-> -1, afterRejection |-> FALSE, advised |-> NoAdvice]
NoResponse ==
    [body |-> NoBody, status |-> 0, success |-> "", error |-> "", retry |-> 0,
     filename |-> "", calls |-> 0, raised |-> FALSE, msg |-> NoMsg,
     reserved |-> "", actual |-> "", returned |-> FALSE, sweeps |-> 0, swept |-> ""]
NoServed ==
    [route |-> "", name |-> "", status |-> 0, raised |-> FALSE, path |-> <<>>,
     file |-> Absent, files_cached |-> -1, current_requests |-> -1]

\* What the surroundings of the process may do in one specification: the
\* requests clients send per window, the bodies they send, the faults of the
\* file system, what the library does, how the clock moves, the names asked
\* of /files, whether the history of the names given out is kept, and what an
\* earlier run of the process left in DOWNLOAD_DIR.
EmptyDir == [n \in Names |-> Absent]
NoSweep == [done |-> FALSE, err |-> "", at |-> "", t |-> 0, before |-> EmptyDir]

FullEnv ==
    [burst |-> MaxBurst,
     clients |-> {"A"},
     bodies |-> {b \in Bodies : b.url \in {NoUrl, UVideo, UPhoto}},
     faulty |-> TRUE,
     outcomes |-> {o \in Outcomes : o.kind = "extractor_error" => o.msg = MsgPrivate},
     steps |-> {Stale + 1},
     advances |-> MaxAgeings,
     serve |-> {DotDot, SubDir, LibName},
     promises |-> FALSE]

\* the pipeline without faults of the file system and with a library that
\* keeps the name it was asked for, with the history of the names given out,
\* and with short and long steps of the clock
ServeEnv ==
    [burst |-> MaxBurst,
     clients |-> {"A"},
     bodies |-> {b \in Bodies : b.url \in {NoUrl, UVideo}},
     faulty |-> FALSE,
     outcomes |-> {o \in Outcomes : o.kind = "returned" /\ ~o.lib},
     steps |-> {1, Stale + 1},
     advances |-> MaxAgeings,
     serve |-> {output_filename(id) : id \in Ids},
     promises |-> TRUE]

LimiterEnv ==
    [burst |-> max_requests + 1,
     clients |-> Clients,
     bodies |-> {b \in Bodies : b.kind # "badjson"},
     faulty |-> FALSE,
     outcomes |-> {o \in Outcomes : o.kind = "exception" \/ o.msg = MsgPrivate},
     steps |-> {1, Window - 1},
     advances |-> MaxAdvances,
     serve |-> {Missing},
     promises |-> FALSE]

\* one client that drives the limiter to its limit, is rejected half a second
\* into the window and comes back later
RetryEnv ==
    [burst |-> max_requests + 1,
     clients |-> {"A"},
     bodies |-> {b \in Bodies : b.kind = "nourl"},
     faulty |-> FALSE,
     outcomes |-> {o \in Outcomes : o.kind = "exception"},
     steps |-> {1, Window - TicksPerSec},
     advances |-> MaxAdvances,
     serve |-> {Missing},
     promises |-> FALSE]

ClassifyEnv ==
    [burst |-> 1,
     clients |-> {"A"},
     bodies |-> {b \in Bodies : b.url = UVideo},
     faulty |-> FALSE,
     outcomes |-> {o \in Outcomes : o.kind = "extractor_error"},
     steps |-> {},
     advances |-> 0,
     serve |-> {},
     promises |-> FALSE]

\* two files past the threshold, one exactly at it, and a subdirectory
LeftOver ==
    [n \in Names |->
        IF n = SubDir THEN Dir(0)
        ELSE IF n = output_filename("b") THEN File(T0 - Stale)
        ELSE File(T0 - Stale - 1)]

InitWith(dirs) ==
    /\ now = T0
    /\ advances = 0
    /\ requests = <<>>
    /\ dir \in dirs
    /\ pc = [h \in Handlers |-> "idle"]
    /\ local = [h \in Handlers |-> NoLocal]
    /\ window = <<>>
    /\ rejected = FALSE
    /\ advised = NoAdvice
    /\ issued = [n \in FileNames |-> NoIssue]
    /\ lastCheck = NoCheck
    /\ lastSweep = NoSweep
    /\ last = NoResponse
    /\ served = NoServed

\* lines 45-48 and 100: the process starts with an empty list, whatever an
\* earlier run left in DOWNLOAD_DIR
Init == InitWith({LeftOver})
InitLimiter == InitWith({EmptyDir})

\* time passes between two steps of the event loop, and while a handler is
\* inside the library's call
Advance(d, env) ==
    /\ advances < env.advances
    /\ now' = now + d
    /\ advances' = advances + 1
    /\ lastCheck' = NoCheck
    /\ lastSweep' = NoSweep
    /\ last' = NoResponse
    /\ served' = NoServed
    /\ UNCHANGED <<requests, dir, pc, local, window, rejected, advised, issued>>

\* The handlers are coroutines of one event loop: a handler runs until it
\* awaits something that is not ready. ydl.extract_info (line 257) is an
\* ordinary call, not awaited: while a handler is inside it the loop runs
\* nothing else.
EventLoopFree == \A h \in Handlers : pc[h] # "backend"

\* the history's own view of the trailing window at time t
Trailing(w, t) == SelectSeq(w, LAMBDA e : t - e.t < Window)
OwnIn(w, c) == Len(SelectSeq(w, LAMBDA e : e.client = c))

\* lines 89-96 with lines 353-354: the HTTPException leaves the handler and
\* FastAPI answers with its status and {"detail": ...}, which has no
\* "success" field
RateLimitedResponse(body, retry) ==
    [NoResponse EXCEPT !.body = body, !.status = 429, !.success = "absent",
                       !.error = "Too many requests", !.retry = retry, !.raised = TRUE]

\* a handler that does not sweep
SweepSkipped(d, t, order, fault) ==
    [dir |-> d, err |-> "none", done |-> FALSE, raised |-> FALSE]

\* a sweep whose exception is not caught
SweepUncaught(d, t, order, fault) ==
    LET sw == cleanup_old_files(d, t, order, fault)
    IN  [dir |-> sw.dir, err |-> sw.err, done |-> TRUE, raised |-> sw.err # "none"]

\* line 164 with lines 60 and 71-72: the handler sweeps once, and every
\* exception of the sweep is caught and logged inside cleanup_old_files
SweepOnEntry(d, t, order, fault) ==
    LET sw == cleanup_old_files(d, t, order, fault)
    IN  [dir |-> sw.dir, err |-> sw.err, done |-> TRUE, raised |-> FALSE]

\* lines 58-72 as one step of history: what the sweep saw and what it left
SweepRecord(d, t, sw, fault) ==
    [done |-> sw.done, err |-> sw.err, at |-> fault.at, t |-> t, before |-> d]

\* lines 355-360: the answer to an exception that is not an HTTPException
ServerError(body, calls) ==
    [NoResponse EXCEPT !.body = body, !.status = 500, !.success = "false",
                       !.error = "Server error", !.calls = calls]

\* lines 159-167: the handler up to its first suspension, `await
\* request.json()`: the admission check and, when admitted, the sweep
DownloadEnter(h, c, env) ==
    /\ EventLoopFree
    /\ pc[h] = "idle"
    /\ \A g \in Handlers : pc[g] = "idle" => Slot(h) <= Slot(g)
    /\ Len(Trailing(window, now)) < env.burst
    /\ c = "B" => OwnIn(window, "B") < MaxOther
    /\ LET r == check_rate_limit(requests, now)
           w == Trailing(window, now)
           chk == [client |-> c, t |-> now, ok |-> r.ok,
                   seen |-> Len(w), own |-> OwnIn(w, c), others |-> Len(w) - OwnIn(w, c),
                   oldest |-> IF w = <<>> THEN -1 ELSE w[1].t,
                   prev |-> IF window = <<>> THEN -1 ELSE window[Len(window)].t,
                   afterRejection |-> rejected, advised |-> advised]
       IN  /\ requests' = r.requests
           /\ lastCheck' = chk
           /\ rejected' = ~r.ok
           /\ advised' = IF r.ok THEN NoAdvice ELSE [t |-> now, retry |-> r.retry]
           /\ IF r.ok
              THEN \E fault \in IF env.faulty THEN Faults(dir, now) ELSE {NoFault} :
                   \E order \in SweepOrders(Listing(dir), fault) :
                   LET sw == SweepOnEntry(dir, now, order, fault)
                   IN  /\ window' = Append(w, [t |-> now, client |-> c])
                       /\ dir' = sw.dir
                       /\ lastSweep' = SweepRecord(dir, now, sw, fault)
                       /\ IF sw.raised
                          THEN /\ last' = ServerError(NoBody, 0)
                               /\ UNCHANGED <<pc, local>>
                          ELSE /\ last' = NoResponse
                               /\ pc' = [pc EXCEPT ![h] = "body"]
                               /\ local' = [local EXCEPT ![h] =
                                    [NoLocal EXCEPT !.sweeps = IF sw.done THEN 1 ELSE 0,
                                                    !.swept = IF sw.err = "none" THEN "clean"
                                                              ELSE "failed"]]
              ELSE \E body \in env.bodies :
                   /\ window' = w
                   /\ last' = RateLimitedResponse(body, r.retry)
                   /\ lastSweep' = NoSweep
                   /\ UNCHANGED <<dir, pc, local>>
    /\ served' = NoServed
    /\ UNCHANGED <<now, advances, issued>>

\* lines 167-196 with 355-360: the answer to a body that fails validation
ValidationResponse(body) ==
    [NoResponse EXCEPT !.body = body, !.success = "false",
                       !.status = Validate(body), !.error = ValidateError(body)]

\* lines 167-257: the handler from the body's arrival to the library's call;
\* it answers a body that fails validation, and else it draws the name of the
\* output file (line 201) and enters ydl.extract_info
DownloadBody(h, env) ==
    /\ EventLoopFree
    /\ pc[h] = "body"
    /\ \E body \in env.bodies :
        IF Validate(body) # 0
        THEN /\ last' = [ValidationResponse(body) EXCEPT !.sweeps = local[h].sweeps,
                                                         !.swept = local[h].swept]
             /\ pc' = [pc EXCEPT ![h] = "idle"]
             /\ local' = [local EXCEPT ![h] = NoLocal]
        ELSE \E id \in Ids :
             /\ last' = NoResponse
             /\ pc' = [pc EXCEPT ![h] = "backend"]
             /\ local' = [local EXCEPT ![h].body = body, ![h].id = id]
    /\ lastCheck' = NoCheck
    /\ lastSweep' = NoSweep
    /\ served' = NoServed
    /\ UNCHANGED <<now, advances, requests, dir, window, rejected, advised, issued>>

\* line 266: the name ydl.prepare_filename gives
actual_filename(out, id) == IF out.lib THEN LibName ELSE output_filename(id)

\* the directory after the library's call
Written(d, out, id, t) ==
    IF out.kind = "returned" /\ out.wrote
    THEN [d EXCEPT ![actual_filename(out, id)] = File(t)]
    ELSE d

\* a reconciliation that trusts the library's name
ReconcileTrusting(d, out, id) == actual_filename(out, id)

\* lines 320-330: the name the response gives, "" when no file is found
Reconcile(d, out, id) ==
    IF exists(d, output_filename(id)) THEN output_filename(id)
    ELSE IF exists(d, actual_filename(out, id)) THEN actual_filename(out, id)
    ELSE ""

\* lines 255-360: the response after the library's call
Respond(body, out, id, cookies, d) ==
    LET base == [NoResponse EXCEPT !.body = body, !.success = "false", !.calls = 1]
    IN  IF out.kind = "extractor_error"
        THEN [base EXCEPT !.status = ErrorStatus(out.msg),
                          !.error = ErrorText(out.msg, cookies),
                          !.msg = out.msg]
        ELSE IF out.kind = "exception"
        THEN ServerError(body, 1)
        ELSE IF Reconcile(d, out, id) = ""
        THEN [base EXCEPT !.status = 500, !.error = "Video file not found after download"]
        ELSE [base EXCEPT !.status = 200, !.success = "true",
                          !.filename = Reconcile(d, out, id)]

\* One choice stands for all that the handler cannot tell apart: it looks
\* for the cookies file (lines 214, 276) with effect only on an
\* ExtractorError for missing page data.
Relevant(out, cookies) ==
    (out.kind # "extractor_error" \/ ErrorStatus(out.msg) # 503) => cookies

\* the history of the names given out: a name stays promised to the download
\* that returned it first for as long as that download's file is not stale
Promise(iss, resp, out, id, t) ==
    IF resp.status # 200 THEN iss
    ELSE LET n == resp.filename
             keep == iss[n].t # -1 /\ t - iss[n].t <= Stale
             mine == out.wrote /\ actual_filename(out, id) = n
         IN  IF keep THEN iss
             ELSE [iss EXCEPT ![n] = [t |-> t, mtime |-> IF mine THEN t ELSE -1]]

\* lines 257-360: the library's call returns or raises and the handler
\* answers; it has not suspended since the body arrived
DownloadReturn(h, env) ==
    /\ pc[h] = "backend"
    /\ \E out \in env.outcomes, cookies \in BOOLEAN :
        LET id == local[h].id
            d == Written(dir, out, id, now)
            resp == Respond(local[h].body, out, id, cookies, d)
        IN  /\ Relevant(out, cookies)
            /\ dir' = d
            /\ last' = [resp EXCEPT !.reserved = IF out.kind = "returned"
                                                 THEN output_filename(id) ELSE "",
                                    !.actual = IF out.kind = "returned"
                                               THEN actual_filename(out, id) ELSE "",
                                    !.returned = out.kind = "returned",
                                    !.sweeps = local[h].sweeps,
                                    !.swept = local[h].swept]
            /\ issued' = IF env.promises THEN Promise(issued, resp, out, id, now)
                          ELSE issued
    /\ pc' = [pc EXCEPT ![h] = "idle"]
    /\ local' = [local EXCEPT ![h] = NoLocal]
    /\ lastCheck' = NoCheck
    /\ lastSweep' = NoSweep
    /\ served' = NoServed
    /\ UNCHANGED <<now, advances, requests, window, rejected, advised>>

\* the other routes leave the process as it is
Quiet ==
    /\ lastCheck' = NoCheck
    /\ lastSweep' = NoSweep
    /\ last' = NoResponse
    /\ UNCHANGED <<now, advances, requests, dir, pc, local, window, rejected, advised, issued>>

\* lines 362-394: GET /files/{filename}
ServeFile(name) ==
    /\ EventLoopFree
    /\ LET r == serve_file(dir, name)
       IN  served' = [NoServed EXCEPT !.route = "/files", !.name = name,
                                      !.status = r.status, !.raised = r.raised,
                                      !.path = r.path, !.file = r.file]
    /\ Quiet

\* lines 128-153: GET /health
Health(env) ==
    /\ EventLoopFree
    /\ \E fails \in IF env.faulty THEN BOOLEAN ELSE {FALSE} :
        LET r == health(dir, requests, fails)
        IN  served' = [NoServed EXCEPT !.route = "/health", !.status = r.status,
                                       !.files_cached = r.files_cached,
                                       !.current_requests = r.current_requests]
    /\ Quiet

\* lines 102-126: GET /
Root ==
    /\ EventLoopFree
    /\ served' = [NoServed EXCEPT !.route = "/", !.status = 200]
    /\ Quiet

NextWith(env) ==
    \/ \E d \in env.steps : Advance(d, env)
    \/ \E h \in Handlers, c \in env.clients : DownloadEnter(h, c, env)
    \/ \E h \in Handlers : DownloadBody(h, env)
    \/ \E h \in Handlers : DownloadReturn(h, env)
    \/ \E name \in env.serve : ServeFile(name)
    \/ Health(env)
    \/ Root

Next == NextWith(FullEnv)
NextLimiter == NextWith(LimiterEnv)
NextServe == NextWith(ServeEnv)

NextRetry ==
    \/ \E d \in RetryEnv.steps : Advance(d, RetryEnv)
    \/ \E h \in Handlers, c \in RetryEnv.clients : DownloadEnter(h, c, RetryEnv)
    \/ \E h \in Handlers : DownloadBody(h, RetryEnv)

NextClassify ==
    \/ \E h \in Handlers, c \in ClassifyEnv.clients : DownloadEnter(h, c, ClassifyEnv)
    \/ \E h \in Handlers : DownloadBody(h, ClassifyEnv)
    \/ \E h \in Handlers : DownloadReturn(h, ClassifyEnv)

\* the whole pipeline, with at most MaxBurst requests per window
Spec == Init /\ [][Next]_vars
\* the limiter driven to its limit, with a backend that always fails
SpecLimiter == InitLimiter /\ [][NextLimiter]_vars
\* downloads that return, and the files they leave, served later
SpecServe == InitLimiter /\ [][NextServe]_vars
\* requests without a URL, rejected and sent again
SpecRetry == InitLimiter /\ [][NextRetry]_vars
\* one request at a time, each failing with a message
SpecClassify == InitLimiter /\ [][NextClassify]_vars

\* ------------------------------------------------------------------ claims
Checked == lastCheck.client # ""
Rejected == Checked /\ ~lastCheck.ok
Answered == last.status # 0

\* C1: a check is admitted when fewer than max_requests requests were
\* admitted in the time_window seconds before it and rejected with 429 when
\* max_requests were (so the first five of a window pass and the sixth does
\* not), and at every moment at most max_requests admitted requests are less
\* than time_window seconds old.
C1_SlidingWindowBound ==
    /\ Len(Trailing(window, now)) <= max_requests
    /\ Checked /\ lastCheck.seen < max_requests => lastCheck.ok
    /\ Checked /\ lastCheck.seen >= max_requests => ~lastCheck.ok /\ last.status = 429

\* the sixth check of a window has been rejected
C1_Witness ==
    /\ Rejected
    /\ lastCheck.seen = max_requests
    /\ last.status = 429
    /\ Len(requests) = max_requests

\* C2: a request that the validator answers with 400 gets that answer
\* whatever the state of the rate window.
C2_ValidationBeforeAdmission ==
    Answered /\ Validate(last.body) = 400 => last.status = 400

EndsWith(s, suf) ==
    /\ Len(suf) <= Len(s)
    /\ \A j \in 1..Len(suf) : s[Len(s) - Len(suf) + j] = suf[j]

\* lower case, word by word
LowerTok(w) ==
    CASE w = "Private" -> "private"
      [] w = "Video" -> "video"
      [] w = "Forbidden" -> "forbidden"
      [] w = "Unsupported" -> "unsupported"
      [] w = "Unable to extract webpage video data" -> "unable to extract webpage video data"
      [] OTHER -> w

Lower(s) == [i \in 1..Len(s) |-> LowerTok(s[i])]

\* the host of the URL is one of the allow-listed domains or a subdomain
OnAllowListedDomain(u) == \E d \in valid_domains : EndsWith(u.host, d)
IsPhotoPost(u) == Contains(u.path, <<"/photo/">>)
ShortCircuited(r) ==
    \/ r.status = 429
    \/ r.body.kind = "nourl"
    \/ r.body.kind = "url" /\ ~OnAllowListedDomain(r.body.url)
    \/ r.body.kind = "url" /\ IsPhotoPost(r.body.url)

\* C3: a request that is rate limited, has no URL, has a URL outside the
\* allow-listed domains or has a photo-post URL never reaches the backend.
C3_NoBackendOnShortCircuit ==
    Answered /\ ShortCircuited(last) => last.calls = 0

\* C4: the retry_after of a rejection is greater than 0 and is time_window
\* minus the age of the oldest retained timestamp, in whole seconds.
C4_RetryAfter ==
    Rejected =>
        /\ last.retry > 0
        /\ last.retry = (Window - (lastCheck.t - lastCheck.oldest)) \div TicksPerSec

\* C5: a check made time_window seconds or more after the most recent
\* admission is admitted, whatever was rejected in between.
C5_RecoveryAfterWindow ==
    Checked /\ (lastCheck.prev = -1 \/ lastCheck.t - lastCheck.prev >= Window)
        => lastCheck.ok

\* a check exactly time_window after the last admission, with a rejection
\* in between, has been admitted
C5_Witness ==
    /\ Checked
    /\ lastCheck.ok
    /\ lastCheck.prev # -1
    /\ lastCheck.t - lastCheck.prev = Window
    /\ lastCheck.afterRejection

\* C6 as stated: a client's request is rejected exactly when max_requests of
\* its own requests were admitted in the time_window seconds before it.
C6_PerClientBudget ==
    Checked => (lastCheck.ok <=> lastCheck.own < max_requests)

\* C6 as amended: the budget is one bucket for all clients; a request is
\* rejected exactly when the requests of its own client and of the other
\* clients admitted in the time_window seconds before it add up to
\* max_requests.
C6_SharedBudget ==
    Checked => (lastCheck.ok <=> lastCheck.own + lastCheck.others < max_requests)

\* a client with no request of its own in the window has been rejected
C6_Witness ==
    /\ Rejected
    /\ lastCheck.own = 0
    /\ lastCheck.others = max_requests

AgedOut(e, t) == e.kind = "file" /\ t - e.mtime > StaleSeconds * TicksPerSec
StaleBefore == {n \in Names : AgedOut(lastSweep.before[n], lastSweep.t)}

\* C7: when one deletion fails, every other regular file past the threshold
\* is deleted by the same sweep.
C7_IndependentDeletions ==
    lastSweep.done /\ lastSweep.err = "remove" =>
        \A n \in StaleBefore \ {lastSweep.at} : dir[n] = Absent

SweepResult ==
    \A n \in Names :
        dir[n] = IF n \in StaleBefore THEN Absent ELSE lastSweep.before[n]

ClaimedStatuses(msg) ==
    LET m == Lower(msg)
        hits ==
            (IF Contains(m, <<"private">>) THEN {403} ELSE {})
            \cup (IF Contains(m, <<"unavailable">>) \/ Contains(m, <<"404">>) THEN {404} ELSE {})
            \cup (IF Contains(m, <<"forbidden">>) \/ Contains(m, <<"403">>) THEN {403} ELSE {})
            \cup (IF Contains(m, Lower(<<NoData>>)) THEN {503} ELSE {})
    IN  IF hits = {} THEN {500} ELSE hits

\* C9: the status of a library failure is the one its message's words give,
\* matched without regard to case.
C9_CaseInsensitiveClassification ==
    Answered /\ last.msg # NoMsg => last.status \in ClaimedStatuses(last.msg)

\* C10: no exception leaves the handler, and every failure response carries
\* success=false, an error message and a status of the failure's kind.
C10_StructuredFailure ==
    Answered =>
        /\ ~last.raised
        /\ last.status # 200 =>
            /\ last.success = "false"
            /\ last.error # ""
            /\ last.status \in {400, 403, 404, 429, 500, 503}

\* the name a handler inside the library's call has reserved
ReservedBy(h) == output_filename(local[h].id)
\* a download of this process returned the name and its file is still there
ArtifactOf(n) == issued[n] # NoIssue /\ exists(dir, n)

\* C11: two requests in flight at the same time never hold the same reserved
\* file name, and a request in flight never holds the name of an artifact
\* that another request left in the directory.
C11_UniqueReservation ==
    \A h \in Handlers : pc[h] = "backend" =>
        /\ \A g \in Handlers \ {h} : pc[g] = "backend" => ReservedBy(g) # ReservedBy(h)
        /\ ~ArtifactOf(ReservedBy(h))

\* a path strictly below the managed directory
InsideManaged(p) == Len(p) > Len(DOWNLOAD_DIR) /\ IsPrefix(DOWNLOAD_DIR, p)

\* C12: GET /files/{filename} with a file name that contains ".." is
\* rejected without a path being looked up, and every path serve_file hands
\* on to be opened lies inside the managed directory. (A name that begins
\* with "/" does not reach serve_file: the route's parameter is one segment.)
C12_TraversalRejected ==
    served.route = "/files" =>
        /\ served.name = DotDot => served.status \in {400, 403, 404} /\ served.path = <<>>
        /\ served.path # <<>> => InsideManaged(served.path)

\* the download that returned the served name, when its artifact is not
\* older than the threshold
Promised(n) ==
    /\ n \in FileNames
    /\ issued[n] # NoIssue
    /\ now - issued[n].t <= StaleSeconds * TicksPerSec

\* C13: a file name returned by a successful download is served, until its
\* artifact is older than the threshold, with the file that download wrote.
C13_RoundTrip ==
    served.route = "/files" /\ Promised(served.name) =>
        /\ served.status = 200
        /\ served.file.kind = "file"
        /\ served.file.mtime = issued[served.name].mtime

\* the times of the requests admitted in the time_window seconds before now
AdmittedTimes == [i \in 1..Len(Trailing(window, now)) |-> Trailing(window, now)[i].t]
InFlight(h) == pc[h] # "idle"

\* C14: with handlers running concurrently, the list never holds more than
\* max_requests timestamps, no request is admitted when max_requests were
\* admitted in the time_window seconds before it, and the timestamp of every
\* request admitted in the last time_window seconds is in the list (no
\* update is lost), in the order of admission.
C14_AtomicAdmission ==
    /\ Len(requests) <= max_requests
    /\ Checked /\ lastCheck.ok => lastCheck.seen < max_requests
    /\ Len(AdmittedTimes) <= Len(requests)
    /\ SubSeq(requests, Len(requests) - Len(AdmittedTimes) + 1, Len(requests)) = AdmittedTimes

\* two requests are in flight at once and the second was admitted as the
\* last one the limit allows
C14_Witness ==
    /\ \A h \in Handlers : InFlight(h)
    /\ Checked
    /\ lastCheck.ok
    /\ lastCheck.seen = max_requests - 1
    /\ Len(requests) = max_requests

\* C15: a request inside the backend call is suspended, so that another
\* request whose body has arrived can go on to its own backend call while
\* the first one waits.
C15_OverlapDuringBackend ==
    \A h \in Handlers : pc[h] = "backend" =>
        \A g \in Handlers \ {h} : pc[g] = "body" => ENABLED DownloadBody(g, LimiterEnv)

\* C16: a response with success=true names a file that is on disk when the
\* response is given, the requested output path when that exists and else
\* the path the library wrote; when the backend call has returned and
\* neither path exists, the response is a 500 failure.
C16_SuccessOnlyForFile ==
    /\ last.success = "true" =>
        /\ last.status = 200
        /\ last.returned
        /\ last.filename \in {last.reserved, last.actual}
        /\ dir[last.filename].kind = "file"
        /\ dir[last.reserved].kind # "none" => last.filename = last.reserved
    /\ (last.returned /\ dir[last.reserved].kind = "none" /\ dir[last.actual].kind = "none")
            => last.status = 500 /\ last.success = "false"

\* a success that names the path the library wrote, the requested path
\* being absent
C16_Witness ==
    /\ last.success = "true"
    /\ last.filename = last.actual
    /\ last.actual # last.reserved
    /\ dir[last.reserved].kind = "none"
    /\ dir[last.actual].kind = "file"

SweepFailed == lastSweep.done /\ lastSweep.err # "none"

C18_SweepBeforeBackend ==
    /\ \A h \in Handlers : pc[h] = "backend" => local[h].sweeps = 1
    /\ last.calls = 1 => last.sweeps = 1
    /\ lastSweep.done => Checked /\ lastCheck.ok /\ served.route = ""
    /\ served.route # "" => ~lastSweep.done /\ lastSweep.before = EmptyDir

\* the backend has been called for a request, one sweep after its admission
C18_Witness ==
    /\ last.calls = 1
    /\ last.returned
    /\ last.sweeps = 1

\* the timestamps of the list that are less than time_window seconds old
Unexpired == SelectSeq(requests, LAMBDA r : now - r < time_window * TicksPerSec)

\* one step, as C19 has it: a rejected check leaves the unexpired
\* timestamps, an admitted check leaves them and the time of the check, and
\* every other step (/, /health, /files, a body arriving, the backend
\* returning, time passing) leaves the list as it is
C19_Step ==
    /\ (Checked' /\ ~lastCheck'.ok) => requests' = Unexpired
    /\ (Checked' /\ lastCheck'.ok) => requests' = Append(Unexpired, now) /\ now' = now
    /\ ~Checked' => requests' = requests

\* C19: the rate window is changed only by admission checks: a rejected
\* check appends nothing, an admitted check appends exactly its own time, and
\* no other handler changes the list.
C19_WindowChangedOnlyByChecks == [][C19_Step]_vars

\* GET /health has reported a full list and has left it as it was
C19_Witness ==
    /\ served.route = "/health"
    /\ served.current_requests = max_requests
    /\ Len(requests) = max_requests
    /\ rejected

\* C20: a check made retry_after seconds after a rejection, with no
\* admission in between, is admitted.
C20_AdvertisedWaitSuffices ==
    (/\ Checked
     /\ lastCheck.advised # NoAdvice
     /\ lastCheck.t - lastCheck.advised.t = lastCheck.advised.retry * TicksPerSec)
        => lastCheck.ok
====
